---- MODULE Spec2Model ----
(***************************************************************************)
(* A model of the shader directive parser of src/src/parser.c.             *)
(*                                                                         *)
(* Text is modelled byte by byte: a string is a sequence of one-character  *)
(* strings, and C's 0-based offsets are kept (byte k of buffer b is        *)
(* b[k + 1]).  One step of the model is one iteration of the scan loop of  *)
(* parse(), the handling of a whole directive line included.               *)
(***************************************************************************)
EXTENDS Integers, Sequences, FiniteSets, TLC

(***************************************************************************)
(* Bounds of the model.                                                    *)
(***************************************************************************)
\* At most this many lines of a scenario are kept in a root source.
MaxLines == 8
\* At most this many files are open at once (root file included).
MaxDepth == 2

(***************************************************************************)
(* Bytes and strings.                                                      *)
(***************************************************************************)
\* ar_char_is_whitespace (arkin): the C whitespace characters.
ar_char_is_whitespace(c) == c \in {" ", "\n", "\t", "\r", "\f"}

Min(a, b) == IF a <= b THEN a ELSE b

\* The U32 value 2^32 - 1, carried as its two's-complement representative:
\* the model checker's integers are 32 bits wide, and every other offset of
\* the model is far below 2^31.
U32_MAX == 0 - 1

\* x - 1 in U32 arithmetic (parser.c:197, token_start - 1).
U32Dec(x) == IF x = 0 THEN U32_MAX ELSE x - 1

\* ar_str_sub(str, start, end): the view of str from byte start to byte end,
\* both inclusive; its length end - start + 1 is computed in 64 bits and
\* clamped to the length of str.  The result is the length of the view.
ar_str_sub_len(strlen, start, end) ==
    IF end = U32_MAX THEN strlen ELSE Min(end - start + 1, strlen)

\* The bytes of a view: len bytes of memory from offset start.
Bytes(mem, start, len) == SubSeq(mem, start + 1, start + len)

RECURSIVE ar_str_list_join(_)
\* ar_str_list_join: the concatenation of the strings of a list.
ar_str_list_join(list) ==
    IF list = <<>> THEN <<>> ELSE Head(list) \o ar_str_list_join(Tail(list))

RECURSIVE TrimFront(_)
TrimFront(s) ==
    IF s # <<>> /\ ar_char_is_whitespace(Head(s)) THEN TrimFront(Tail(s)) ELSE s

RECURSIVE TrimBack(_)
TrimBack(s) ==
    IF s # <<>> /\ ar_char_is_whitespace(s[Len(s)])
    THEN TrimBack(SubSeq(s, 1, Len(s) - 1)) ELSE s

\* ar_str_trim: the string without its leading and trailing whitespace.
ar_str_trim(s) == TrimBack(TrimFront(s))

(***************************************************************************)
(* Keyword tables.                                                         *)
(***************************************************************************)
GLSL_KEYWORDS == <<
    <<"d", "e", "f", "i", "n", "e">>,
    <<"u", "n", "d", "e", "f">>,
    <<"i", "f">>,
    <<"i", "f", "d", "e", "f">>,
    <<"i", "f", "n", "d", "e", "f">>,
    <<"e", "l", "s", "e">>,
    <<"e", "l", "i", "f">>,
    <<"e", "n", "d", "i", "f">>,
    <<"e", "r", "r", "o", "r">>,
    <<"p", "r", "a", "g", "m", "a">>,
    <<"e", "x", "t", "e", "n", "s", "i", "o", "n">>,
    <<"v", "e", "r", "s", "i", "o", "n">>,
    <<"l", "i", "n", "e">> >>

\* TokenType, in the order of the enum: KEYWORDS[k] spells TokenTypes[k].
TokenTypes == <<"TOKEN_END", "TOKEN_MODULE", "TOKEN_VERT", "TOKEN_FRAG",
                "TOKEN_PROGRAM", "TOKEN_INCLUDE", "TOKEN_INCLUDE_MODULE",
                "TOKEN_CTYPEDEF">>

KEYWORDS == <<
    <<"e", "n", "d">>,
    <<"m", "o", "d", "u", "l", "e">>,
    <<"v", "e", "r", "t">>,
    <<"f", "r", "a", "g">>,
    <<"p", "r", "o", "g", "r", "a", "m">>,
    <<"i", "n", "c", "l", "u", "d", "e">>,
    <<"i", "n", "c", "l", "u", "d", "e", "_", "m", "o", "d", "u", "l", "e">>,
    <<"c", "t", "y", "p", "e", "d", "e", "f">> >>

KEYWORD_ARG_COUNT == <<0, 1, 1, 1, 3, 1, 1, 2>>

(***************************************************************************)
(* The statement lexer and tokenizer.  Memory is a file's buffer followed  *)
(* by the bytes that happen to lie behind it (its slack); a scan that runs *)
(* off the end of memory is a crash.                                       *)
(***************************************************************************)
RECURSIVE FindNewline(_, _)
\* The offset of the first '\n' at or after k; Len(mem) when there is none.
FindNewline(mem, k) ==
    IF k >= Len(mem) THEN Len(mem)
    ELSE IF mem[k + 1] = "\n" THEN k ELSE FindNewline(mem, k + 1)

RECURSIVE SkipWhitespace(_, _)
\* The offset of the first non-whitespace byte at or after k.
SkipWhitespace(mem, k) ==
    IF k >= Len(mem) THEN Len(mem)
    ELSE IF ar_char_is_whitespace(mem[k + 1]) THEN SkipWhitespace(mem, k + 1) ELSE k

RECURSIVE SkipWord(_, _)
\* The offset of the first whitespace byte at or after k.
SkipWord(mem, k) ==
    IF k >= Len(mem) THEN Len(mem)
    ELSE IF ar_char_is_whitespace(mem[k + 1]) THEN k ELSE SkipWord(mem, k + 1)

\* extract_statement, called with the cursor just behind the '#': the cursor
\* runs to the next '\n' and the statement is the view in between.
extract_statement(mem, srclen, start) ==
    LET nl == FindNewline(mem, start)
    IN  [crash |-> nl >= Len(mem),
         i     |-> nl,
         base  |-> start,
         len   |-> ar_str_sub_len(srclen, start, nl - 1)]

RECURSIVE split_from(_, _, _, _, _, _)
\* The loop of split_statement from offset i of the statement (base, len).
\* Both inner loops test only the byte, never i against the statement's
\* length, so they run on into the memory behind the statement.  hi is the
\* highest offset of memory read so far.
split_from(mem, base, len, i, list, hi) ==
    IF i >= len THEN [crash |-> FALSE, list |-> list, hi |-> hi]
    ELSE LET start == SkipWhitespace(mem, base + i)
             end   == SkipWord(mem, start)
         IN  IF start >= Len(mem) \/ end >= Len(mem)
             THEN [crash |-> TRUE, list |-> list, hi |-> Len(mem)]
             ELSE split_from(mem, base, len, end - base,
                      Append(list, Bytes(mem, start,
                          ar_str_sub_len(len, start - base, end - 1 - base))),
                      end)

split_statement(mem, base, len) == split_from(mem, base, len, 0, <<>>, 0)

\* match_token_type: the structural keywords first, then the GLSL ones.
match_token_type(keyword) ==
    IF \E k \in 1..Len(KEYWORDS) : KEYWORDS[k] = keyword
    THEN TokenTypes[CHOOSE k \in 1..Len(KEYWORDS) : KEYWORDS[k] = keyword]
    ELSE IF \E k \in 1..Len(GLSL_KEYWORDS) : GLSL_KEYWORDS[k] = keyword
         THEN "TOKEN_GLSL"
         ELSE "TOKEN_ERROR"

NoError == [msg |-> "none"]

\* The number of arguments a structural token type requires.
ArgCount(type) ==
    KEYWORD_ARG_COUNT[CHOOSE k \in 1..Len(TokenTypes) : TokenTypes[k] = type]

\* tokenize_statement_list; an empty list makes it read through a null
\* pointer (statement_list.first->str), which is a crash.
tokenize_statement_list(list) ==
    IF list = <<>> THEN [crash |-> TRUE, type |-> "TOKEN_ERROR", error |-> NoError, args |-> <<>>]
    ELSE LET keyword == Head(list)
             type    == match_token_type(keyword)
             args    == Tail(list)
         IN  IF type = "TOKEN_GLSL"
             THEN [crash |-> FALSE, type |-> type, error |-> NoError, args |-> <<>>]
             ELSE IF type = "TOKEN_ERROR"
             THEN [crash |-> FALSE, type |-> type, args |-> <<>>,
                   error |-> [msg |-> "%s: Invalid token.", keyword |-> keyword]]
             ELSE IF Len(args) # ArgCount(type)
             THEN [crash |-> FALSE, type |-> "TOKEN_ERROR", args |-> <<>>,
                   error |-> [msg |-> "%s: Expected %u argument(s), got %u.",
                              keyword |-> keyword,
                              expected |-> ArgCount(type), got |-> Len(args)]]
             ELSE [crash |-> FALSE, type |-> type, error |-> NoError, args |-> args]

(***************************************************************************)
(* The inputs of the model: lines, the scenarios made of them, and the     *)
(* root sources, which are the scenarios with lines left out.              *)
(***************************************************************************)
L_nl == <<"\n">>
L_a == <<" ", "a", "\n">>
L_b == <<"b", "\n">>
L_vertA == <<"#", "v", "e", "r", "t", " ", "A", "\n">>
L_fragA == <<"#", "f", "r", "a", "g", " ", "A", "\n">>
L_fragB == <<"#", "f", "r", "a", "g", " ", "B", "\n">>
L_moduleA == <<"#", "m", "o", "d", "u", "l", "e", " ", "A", "\n">>
L_moduleM == <<"#", "m", "o", "d", "u", "l", "e", " ", "M", "\n">>
L_end == <<"#", "e", "n", "d", "\n">>
L_programPAB == <<"#", "p", "r", "o", "g", "r", "a", "m", " ", "P", " ", "A", " ", "B", "\n">>
L_programQBA == <<"#", "p", "r", "o", "g", "r", "a", "m", " ", "Q", " ", "B", " ", "A", "\n">>
L_programPAA == <<"#", "p", "r", "o", "g", "r", "a", "m", " ", "P", " ", "A", " ", "A", "\n">>
L_version == <<"#", "v", "e", "r", "s", "i", "o", "n", " ", "4", "5", "0", "\n">>
L_comment == <<"/", "/", " ", "#", "e", "n", "d", "\n">>
L_slash == <<"/", "\n">>
L_foobar == <<"#", "f", "o", "o", "b", "a", "r", "\n">>
L_hash == <<"#", "\n">>
L_hashSpace == <<"#", " ", "\n">>
L_vertNoArg == <<"#", "v", "e", "r", "t", "\n">>
L_moduleSpace == <<"#", "m", "o", "d", "u", "l", "e", " ", "\n">>
L_endSpace == <<"#", "e", "n", "d", " ", "\n">>
L_ctypedefKV == <<"#", "c", "t", "y", "p", "e", "d", "e", "f", " ", "K", " ", "V", "\n">>
L_ctypedefKW == <<"#", "c", "t", "y", "p", "e", "d", "e", "f", " ", "K", " ", "W", "\n">>
L_ctypedefAB == <<"#", "c", "t", "y", "p", "e", "d", "e", "f", " ", "A", " ", "B", "\n">>
L_include == <<"#", "i", "n", "c", "l", "u", "d", "e", " ", "f", "\n">>
L_includeModuleM == <<"#", "i", "n", "c", "l", "u", "d", "e", "_", "m", "o", "d", "u", "l", "e", " ", "M", "\n">>
L_c == <<"c", "\n">>

\* The bytes that may lie behind a buffer: nothing readable, a newline, or
\* more text.
Slacks == {<<>>, <<"\n">>, <<"/", "\n">>}

\* Well-formed vertex and fragment blocks and the programs made of them.
S_program == <<L_nl, L_vertA, L_a, L_end, L_fragB, L_b, L_end, L_programPAB,
               L_programQBA>>

\* A name defined as a generic, a vertex and a fragment module.
S_redefine == <<L_moduleA, L_end, L_vertA, L_a, L_end, L_fragA, L_b, L_end,
                L_programPAA>>

\* GLSL directives and comments in and around a module.
S_glsl == <<L_nl, L_version, L_moduleM, L_a, L_version, L_comment, L_b, L_end,
            L_slash>>

\* Type aliases.
S_alias == <<L_ctypedefKV, L_moduleM, L_ctypedefKW, L_end, L_ctypedefAB>>

\* Directive lines with no word, an unknown word, too few words, or
\* whitespace at the end.
S_malformed == <<L_vertA, L_foobar, L_vertNoArg, L_moduleSpace, L_a, L_hashSpace,
                 L_endSpace, L_end, L_hash>>

\* A module inlined into another, and outside any.
S_inline == <<L_nl, L_moduleM, L_a, L_end, L_includeModuleM, L_vertA, L_b,
              L_includeModuleM, L_c, L_end>>

\* A program that names its modules before they are defined, and again
\* after.
S_forward == <<L_programPAB, L_vertA, L_end, L_fragB, L_end, L_programPAB>>

\* A file included inside a module or outside any, and a module and a
\* program defined after it.
S_include == <<L_vertA, L_a, L_end, L_include, L_fragB, L_end, L_programPAB>>

\* The contents an included file may have: a module and a program, an
\* include of itself, a module left open.
Files == {L_fragB \o L_b \o L_end \o L_programPAB,
          L_include,
          L_moduleM \o L_a}

RECURSIVE Keep(_, _, _)
\* The lines of scenario m from line k on whose number is in S.
Keep(m, S, k) ==
    IF k > Len(m) THEN <<>>
    ELSE (IF k \in S THEN m[k] ELSE <<>>) \o Keep(m, S, k + 1)

\* The sets of lines a root source may keep of a scenario.
Kept(m) == {T \in SUBSET (1..Len(m)) : Cardinality(T) <= MaxLines}

\* A root source and a search-path list, with the scenario and the lines
\* the source is made of.
Input(name, m, S, paths) ==
    [source |-> Keep(m, S, 1), paths |-> paths, scenario |-> name, kept |-> S]

InputsOf(name, m, path_lists) ==
    {Input(name, m, S, paths) : S \in Kept(m), paths \in path_lists}

\* An input whose buffer lacks its last newline.
Unterminated(in) ==
    [in EXCEPT !.source = IF @ # <<>> /\ @[Len(@)] = "\n"
                          THEN SubSeq(@, 1, Len(@) - 1) ELSE @]

\* The search-path list is read by the include handler alone.
Inputs ==
    InputsOf("include", S_include, {<<>>, <<"d1", "d2">>})
    \cup InputsOf("program", S_program, {<<"d1">>})
    \cup InputsOf("redefine", S_redefine, {<<"d1">>})
    \cup InputsOf("alias", S_alias, {<<"d1">>})
    \cup InputsOf("inline", S_inline, {<<"d1">>})
    \cup InputsOf("forward", S_forward, {<<"d1">>})
    \cup InputsOf("glsl", S_glsl, {<<"d1">>})
    \cup InputsOf("malformed", S_malformed, {<<"d1">>})
    \cup {Unterminated(in) : in \in InputsOf("glsl", S_glsl, {<<"d1">>})
                                   \cup InputsOf("malformed", S_malformed, {<<"d1">>})}
(***************************************************************************)
(* The state of a parse.                                                   *)
(***************************************************************************)
VARIABLES
    input,              \* the arguments of parse_shader, and what they are made of
    stack,              \* Parser.file_parser_stack, the root file first
    current_module,     \* Parser.current_module
    module_name,        \* Parser.module_name
    module_parts,       \* Parser.module_parts
    module_map,         \* Parser.module_map, in insertion order
    ctype_map,          \* Parser.ctype_map, in insertion order
    program,            \* Parser.program
    errors,             \* what ar_error has been given, in order
    fs_log,             \* the file operations attempted, in order
    handled,            \* what the last step of the scan handled
    pc,                 \* "parse", "done" or "crash"
    result              \* the ParsedShader returned

vars == <<input, stack, current_module, module_name, module_parts, module_map,
          ctype_map, program, errors, fs_log, handled, pc, result>>

\* What is read where a released buffer used to be.
GARBAGE == <<"<released>">>

\* An ArStr that is a view into a file's buffer: buf is the depth of the
\* file on the stack (0 for a buffer that is not a file's, and once the
\* file's buffer has been released) and ok whether the bytes it points at
\* are still the ones it was made from.
View(data, depth) == [data |-> data, buf |-> depth, ok |-> TRUE]

\* (ArStr) {0}
NullStr == [data |-> <<>>, buf |-> 0, ok |-> TRUE]

\* The bytes a view reads as.
Text(v) == IF v.ok THEN v.data ELSE GARBAGE

\* (Module) {0}, the null_value of the module map.
NullModule == [code |-> <<>>, type |-> "MODULE_NONE"]

NoProgram == [name |-> NullStr, vert |-> NullModule, frag |-> NullModule]

NoResult == [name |-> <<>>, vertex_source |-> <<>>, fragment_source |-> <<>>]

\* str_eq, the eq_func of both maps: the bytes of the two keys are compared.
str_eq(a, b) == Text(a) = Text(b)

\* Whether the map holds the key.
ar_hash_map_has(map, key) == \E k \in 1..Len(map) : str_eq(map[k].key, key)

\* ar_hash_map_get: the value stored under the key, or the null value.
ar_hash_map_get(map, key, null_value) ==
    IF ar_hash_map_has(map, key)
    THEN map[CHOOSE k \in 1..Len(map) : str_eq(map[k].key, key)].value
    ELSE null_value

\* ar_hash_map_insert: a new key is stored with its value; under a key the
\* map already holds nothing is stored (and false is returned).
ar_hash_map_insert(map, key, value) ==
    IF ar_hash_map_has(map, key) THEN map
    ELSE Append(map, [key |-> key, value |-> value])

\* ar_str_list_push_front
ar_str_list_push_front(list, str) == <<str>> \o list

\* ar_str_list_pop, as the include handler uses it right after the
\* push_front: the node just pushed is taken off again.
ar_str_list_pop(list) == Tail(list)

\* ar_str_push_copy into an arena that outlives the parse.
ar_str_push_copy(data) == [data |-> data, buf |-> 0, ok |-> TRUE]

(***************************************************************************)
(* The cursor of the file being scanned.                                   *)
(***************************************************************************)
top == stack[Len(stack)]

Depth == Len(stack)

\* FileParser {.source = source}, with the paths parse() was called with;
\* oob records that the scan has read behind the buffer.
NewFileParser(source, paths) ==
    [source |-> source, i |-> 0, token_start |-> 0, token_end |-> 0,
     last_token_end |-> 0, paths |-> paths, oob |-> FALSE]

\* The condition of the scan loop of parse().
Scanning == pc = "parse" /\ stack # <<>> /\ top.i < Len(top.source)

\* The memory the top file's cursor moves in, s being the bytes behind the
\* buffer.
Mem(s) == top.source \o s

\* file_parser_peek
file_parser_peek(mem, f) == mem[f.i + 1]

\* Whether the scan is at "//": peek_next is read only behind a '/'.
AtComment(mem, f) ==
    /\ file_parser_peek(mem, f) = "/"
    /\ f.i + 1 < Len(mem)
    /\ mem[f.i + 2] = "/"

\* What the scan of one directive line gives: the cursor at the '\n', the
\* token, whether the scan crashed, and whether it read behind the buffer.
Lex(mem, f) ==
    LET st  == extract_statement(mem, Len(f.source), f.i + 1)
        sp  == split_statement(mem, st.base, st.len)
        tok == tokenize_statement_list(sp.list)
    IN  IF st.crash \/ sp.crash \/ tok.crash
        THEN [crash |-> TRUE, i |-> st.i, tok |-> [type |-> "none"],
              oob |-> st.crash \/ sp.crash]
        ELSE [crash |-> FALSE, i |-> st.i, tok |-> tok,
              oob |-> st.i >= Len(f.source) \/ sp.hi >= Len(f.source)]

\* The cursor while expand_token runs: parser.c:362-365.
AtToken(f, lx) ==
    [f EXCEPT !.last_token_end = f.token_end, !.token_start = f.i,
              !.i = lx.i, !.oob = f.oob \/ lx.oob]

\* The cursor behind the directive: parser.c:370 and 382.
BehindToken(g) == [g EXCEPT !.token_end = g.i, !.i = g.i + 1]

SetTop(g) == [stack EXCEPT ![Len(stack)] = g]

\* Whether add_module_part leaves the text out: parser.c:194.
SpanCollapses(g) == g.token_start - g.last_token_end = 2

\* add_module_part: the text between the last directive and this one is
\* appended to the pending fragments, unless it is two bytes long.
add_module_part(parts, g) ==
    IF SpanCollapses(g) THEN parts
    ELSE Append(parts,
             Bytes(g.source, g.last_token_end,
                   ar_str_sub_len(Len(g.source), g.last_token_end,
                                  U32Dec(g.token_start))))

\* parser.c:341-343.
TrailingPart(kind, parts, g) ==
    IF kind # "MODULE_NONE" THEN add_module_part(parts, g) ELSE parts

Error(msg, arg) == [msg |-> msg, arg |-> arg]

\* What a step handled: a token, or something that is none.
Token(tok) == [type |-> tok.type, args |-> tok.args]

NoToken(what) == [type |-> what, args |-> <<>>]

\* A directive of the given token type is about to be handled.
AtDirective(mem, lx, type) ==
    /\ Scanning
    /\ file_parser_peek(mem, top) = "#"
    /\ ~lx.crash
    /\ lx.tok.type = type

(***************************************************************************)
(* The scan loop of parse(): comments, plain bytes, crashes.               *)
(***************************************************************************)
\* parser.c:354-359: a line comment is skipped up to its '\n'.
SkipComment(mem) ==
    /\ Scanning
    /\ AtComment(mem, top)
    /\ FindNewline(mem, top.i) < Len(mem)
    /\ stack' = SetTop([top EXCEPT
                   !.i = FindNewline(mem, top.i),
                   !.oob = @ \/ top.i + 1 >= Len(top.source)
                             \/ FindNewline(mem, top.i) >= Len(top.source)])
    /\ handled' = NoToken("comment")
    /\ UNCHANGED <<input, current_module, module_name, module_parts, module_map,
                   ctype_map, program, errors, fs_log, pc, result>>

\* parser.c:382: any other byte is stepped over.
PlainChar(mem) ==
    /\ Scanning
    /\ file_parser_peek(mem, top) # "#"
    /\ ~AtComment(mem, top)
    /\ file_parser_peek(mem, top) = "/" => top.i + 1 < Len(mem)
    /\ stack' = SetTop([top EXCEPT
                   !.i = @ + 1,
                   !.oob = @ \/ (file_parser_peek(mem, top) = "/"
                                 /\ top.i + 1 >= Len(top.source))])
    /\ handled' = NoToken("byte")
    /\ UNCHANGED <<input, current_module, module_name, module_parts, module_map,
                   ctype_map, program, errors, fs_log, pc, result>>

\* The scan of a directive line crashes: extract_statement finds no '\n',
\* a loop of split_statement runs off the end of memory, or the line has no
\* word and tokenize_statement_list reads through the null list head.
DirectiveCrash(mem, lx) ==
    /\ Scanning
    /\ file_parser_peek(mem, top) = "#"
    /\ lx.crash
    /\ pc' = "crash"
    /\ stack' = SetTop([top EXCEPT !.oob = @ \/ lx.oob])
    /\ handled' = NoToken("crash")
    /\ UNCHANGED <<input, current_module, module_name, module_parts, module_map,
                   ctype_map, program, errors, fs_log, result>>

\* The comment loop finds no '\n', or peek_next reads off the end of
\* memory.
CommentCrash(mem) ==
    /\ Scanning
    /\ file_parser_peek(mem, top) = "/"
    /\ top.i + 1 >= Len(mem) \/ (AtComment(mem, top) /\ FindNewline(mem, top.i) >= Len(mem))
    /\ pc' = "crash"
    /\ stack' = SetTop([top EXCEPT !.oob = TRUE])
    /\ handled' = NoToken("crash")
    /\ UNCHANGED <<input, current_module, module_name, module_parts, module_map,
                   ctype_map, program, errors, fs_log, result>>

(***************************************************************************)
(* expand_token, one action per token type.  Each action is the whole      *)
(* loop iteration: parser.c:361-379 and 382 around the case of the switch. *)
(***************************************************************************)
\* The module an #end registers: parser.c:214-217.
ClosedModule(parts, kind) ==
    [code |-> ar_str_trim(ar_str_list_join(parts)), type |-> kind]

\* What the #end of an open module reports: parser.c:218-221.
EndErrors(map, name) ==
    IF ar_hash_map_has(map, name)
    THEN <<Error("%s: Module has already been defined.", Text(name))>>
    ELSE <<>>

\* An #end that never finds itself without a module.
EndWithoutModule_never(kind) == FALSE

\* Whether an #end has no module to close: parser.c:207.
EndWithoutModule(kind) == kind = "MODULE_NONE"

\* What #end reports when no module is open: parser.c:208.
ExtraneousEnd == <<Error("Extranious end statment.", <<>>)>>

\* case TOKEN_END, parser.c:206-227.
ExpandEnd(mem, lx) ==
    /\ AtDirective(mem, lx, "TOKEN_END")
    /\ LET g == AtToken(top, lx)
       IN  /\ stack' = SetTop(BehindToken(g))
           /\ IF EndWithoutModule(current_module)
              THEN /\ errors' = errors \o ExtraneousEnd
                   /\ UNCHANGED <<current_module, module_name, module_parts, module_map>>
              ELSE /\ module_map' = ar_hash_map_insert(module_map, module_name,
                           ClosedModule(add_module_part(module_parts, g), current_module))
                   /\ errors' = errors \o EndErrors(module_map, module_name)
                   /\ current_module' = "MODULE_NONE"
                   /\ module_name' = NullStr
                   /\ module_parts' = <<>>
    /\ handled' = Token(lx.tok)
    /\ UNCHANGED <<input, ctype_map, program, fs_log, pc, result>>

\* The message of a module start inside an open module.
StartError(type) ==
    CASE type = "TOKEN_MODULE" -> "%s: New module started before ending the last module."
      [] type = "TOKEN_VERT" -> "%s: New vertex module started before ending the last module."
      [] type = "TOKEN_FRAG" -> "%s: New fragment module started before ending the last module."

\* A module start that never finds a module open.
ModuleOpen_never(kind) == FALSE

\* Whether a module start finds a module open: parser.c:229, 238, 247.
ModuleOpen(kind) == kind # "MODULE_NONE"

\* cases TOKEN_MODULE, TOKEN_VERT and TOKEN_FRAG, parser.c:228-254.
StartModule(mem, lx, type, kind) ==
    /\ AtDirective(mem, lx, type)
    /\ LET g == AtToken(top, lx)
       IN  /\ stack' = SetTop(BehindToken(g))
           /\ IF ModuleOpen(current_module)
              THEN /\ errors' = Append(errors, Error(StartError(type), lx.tok.args[1]))
                   /\ UNCHANGED <<current_module, module_name>>
              ELSE /\ module_name' = View(lx.tok.args[1], Depth)
                   /\ current_module' = kind
                   /\ UNCHANGED errors
           /\ module_parts' = add_module_part(module_parts, g)
    /\ handled' = Token(lx.tok)
    /\ UNCHANGED <<input, module_map, ctype_map, program, fs_log, pc, result>>

ExpandModule(mem, lx) == StartModule(mem, lx, "TOKEN_MODULE", "MODULE_MODULE")

ExpandVert(mem, lx) == StartModule(mem, lx, "TOKEN_VERT", "MODULE_VERT")

ExpandFrag(mem, lx) == StartModule(mem, lx, "TOKEN_FRAG", "MODULE_FRAG")

\* The kind checks of #program with the second left out once the first
\* has failed.
ProgramErrors_shortcircuit(vert_module, frag_module, vert_key, frag_key) ==
    IF vert_module.type # "MODULE_VERT"
    THEN <<Error("%s: Vertex module not found.", vert_key)>>
    ELSE IF frag_module.type # "MODULE_FRAG"
         THEN <<Error("%s: Fragment module not found.", frag_key)>>
         ELSE <<>>

\* The kind checks of #program with any registered module taken for a
\* fragment module.
ProgramErrors_anyfragment(vert_module, frag_module, vert_key, frag_key) ==
    (IF vert_module.type # "MODULE_VERT"
     THEN <<Error("%s: Vertex module not found.", vert_key)>> ELSE <<>>)
    \o
    (IF frag_module.type = "MODULE_NONE"
     THEN <<Error("%s: Fragment module not found.", frag_key)>> ELSE <<>>)

\* The two kind checks of #program: parser.c:268-276.
ProgramErrors(vert_module, frag_module, vert_key, frag_key) ==
    (IF vert_module.type # "MODULE_VERT"
     THEN <<Error("%s: Vertex module not found.", vert_key)>> ELSE <<>>)
    \o
    (IF frag_module.type # "MODULE_FRAG"
     THEN <<Error("%s: Fragment module not found.", frag_key)>> ELSE <<>>)

\* Whether a program has been recorded: parser.c:260.
ProgramDefined(p) == p.name.data # <<>>

\* case TOKEN_PROGRAM, parser.c:255-284.
ExpandProgram(mem, lx) ==
    /\ AtDirective(mem, lx, "TOKEN_PROGRAM")
    /\ LET g  == AtToken(top, lx)
           name == lx.tok.args[1]
           vert_module_key == lx.tok.args[2]
           frag_module_key == lx.tok.args[3]
           vert_module == ar_hash_map_get(module_map, View(vert_module_key, Depth), NullModule)
           frag_module == ar_hash_map_get(module_map, View(frag_module_key, Depth), NullModule)
           failed == ProgramErrors(vert_module, frag_module, vert_module_key, frag_module_key)
       IN  /\ stack' = SetTop(BehindToken(g))
           /\ IF ProgramDefined(program)
              THEN /\ errors' = Append(errors, Error("%s: Program has already been defined.", name))
                   /\ UNCHANGED program
              ELSE /\ errors' = errors \o failed
                   /\ program' = IF failed # <<>> THEN program
                                 ELSE [name |-> View(name, Depth),
                                       vert |-> vert_module, frag |-> frag_module]
           /\ module_parts' = TrailingPart(current_module, module_parts, g)
    /\ handled' = Token(lx.tok)
    /\ UNCHANGED <<input, current_module, module_name, module_map, ctype_map,
                   fs_log, pc, result>>

\* The path list the included file is parsed with: parser.c:311-313.
IncludePaths(paths, path_dir) == ar_str_list_pop(ar_str_list_push_front(paths, path_dir))

\* The fopen calls of the search loop that ends at directory k (all of them
\* when k is behind the last directory): parser.c:294-302.
Fopens(paths, name, k) ==
    [j \in 1..Min(k, Len(paths)) |->
        [op |-> "fopen", dir |-> paths[j], name |-> name, ok |-> j = k]]

\* An #include that is never refused.
NoSearchPaths_never(paths) == FALSE

\* Whether #include is refused for want of search paths: parser.c:286.
NoSearchPaths(paths) == paths = <<>>

\* case TOKEN_INCLUDE with no search paths, parser.c:285-289.
ExpandIncludeNoPaths(mem, lx) ==
    /\ AtDirective(mem, lx, "TOKEN_INCLUDE")
    /\ NoSearchPaths(top.paths)
    /\ LET g == AtToken(top, lx)
       IN  /\ stack' = SetTop(BehindToken(g))
           /\ module_parts' = TrailingPart(current_module, module_parts, g)
    /\ errors' = Append(errors,
           Error("Cannot include files without providing search paths.", <<>>))
    /\ handled' = Token(lx.tok)
    /\ UNCHANGED <<input, current_module, module_name, module_map, ctype_map,
                   program, fs_log, pc, result>>

\* case TOKEN_INCLUDE when a directory holds the file, parser.c:291-314: the
\* file is read and parse() is entered with it.  Which directory opens and
\* what the file holds is the file system's choice.
ExpandIncludeFound(mem, lx) ==
    /\ AtDirective(mem, lx, "TOKEN_INCLUDE")
    /\ ~NoSearchPaths(top.paths)
    /\ Depth < MaxDepth
    /\ LET g  == AtToken(top, lx)
           name == lx.tok.args[1]
       IN  \E k \in 1..Len(top.paths), imported_file \in Files :
              /\ fs_log' = fs_log \o Fopens(top.paths, name, k)
                     \o <<[op |-> "read_file", dir |-> top.paths[k], name |-> name]>>
              /\ stack' = Append(SetTop(g),
                     NewFileParser(imported_file, IncludePaths(top.paths, top.paths[k])))
    /\ handled' = Token(lx.tok)
    /\ UNCHANGED <<input, current_module, module_name, module_parts, module_map,
                   ctype_map, program, errors, pc, result>>

\* case TOKEN_INCLUDE when no directory holds the file, parser.c:291-314:
\* the error is reported and the handler goes on, with the null path, to
\* read_file, dirname and parse().  What read_file makes of a null path is
\* not the parser's to say: an empty buffer, or a crash.
ExpandIncludeNotFound(mem, lx) ==
    /\ AtDirective(mem, lx, "TOKEN_INCLUDE")
    /\ ~NoSearchPaths(top.paths)
    /\ LET g  == AtToken(top, lx)
           name == lx.tok.args[1]
       IN  /\ fs_log' = fs_log \o Fopens(top.paths, name, Len(top.paths) + 1)
                  \o <<[op |-> "read_file", dir |-> "", name |-> <<>>]>>
           /\ errors' = Append(errors,
                  Error("Couldn't find file %s, in the provided paths.", name))
           /\ \/ /\ stack' = Append(SetTop(g),
                        NewFileParser(<<>>, IncludePaths(top.paths, "")))
                 /\ UNCHANGED pc
              \/ /\ stack' = SetTop(g)
                 /\ pc' = "crash"
    /\ handled' = Token(lx.tok)
    /\ UNCHANGED <<input, current_module, module_name, module_parts, module_map,
                   ctype_map, program, result>>

\* A view once the buffer of the file at the given depth is released: it
\* dangles, and reads as what it was made from or as whatever has been
\* written there since.
Released(v, depth, intact) ==
    IF v.buf = depth THEN [v EXCEPT !.buf = 0, !.ok = intact] ELSE v

\* The return of parse() into the include handler, and the rest of the
\* loop iteration of the including file: parser.c:385, 316, 341-343, 370,
\* 382.  The names kept from the included file (the module name, the keys
\* of the module map, the program name) are views into the buffer that
\* ar_scratch_release releases here.
IncludeReturn ==
    /\ pc = "parse"
    /\ Depth > 1
    /\ top.i >= Len(top.source)
    /\ LET g == stack[Depth - 1]
       IN  /\ stack' = Append(SubSeq(stack, 1, Depth - 2), BehindToken(g))
           /\ module_parts' = TrailingPart(current_module, module_parts, g)
    /\ \E intact \in BOOLEAN :
          /\ module_name' = Released(module_name, Depth, intact)
          /\ module_map' = [k \in 1..Len(module_map) |->
                 [module_map[k] EXCEPT !.key = Released(@, Depth, intact)]]
          /\ program' = [program EXCEPT !.name = Released(@, Depth, intact)]
    /\ handled' = NoToken("return")
    /\ UNCHANGED <<input, current_module, ctype_map, errors, fs_log, pc, result>>

\* case TOKEN_INCLUDE_MODULE, parser.c:319-326.
ExpandIncludeModule(mem, lx) ==
    /\ AtDirective(mem, lx, "TOKEN_INCLUDE_MODULE")
    /\ LET g  == AtToken(top, lx)
           key == View(lx.tok.args[1], Depth)
           module_value == ar_hash_map_get(module_map, key, NullModule).code
       IN  /\ stack' = SetTop(BehindToken(g))
           /\ IF ~ar_hash_map_has(module_map, key)
              THEN /\ errors' = Append(errors,
                          Error("%s: Module couldn't be found.", lx.tok.args[1]))
                   /\ module_parts' = TrailingPart(current_module, module_parts, g)
              ELSE /\ module_parts' = TrailingPart(current_module,
                          Append(module_parts, module_value), g)
                   /\ UNCHANGED errors
    /\ handled' = Token(lx.tok)
    /\ UNCHANGED <<input, current_module, module_name, module_map, ctype_map,
                   program, fs_log, pc, result>>

\* An insertion of a #ctypedef that replaces the target of a key the table
\* holds.
CtypedefInsert_overwrite(map, args) ==
    IF ar_hash_map_has(map, ar_str_push_copy(args[1]))
    THEN [k \in 1..Len(map) |->
             IF str_eq(map[k].key, ar_str_push_copy(args[1]))
             THEN [map[k] EXCEPT !.value = args[2]] ELSE map[k]]
    ELSE Append(map, [key |-> ar_str_push_copy(args[1]), value |-> args[2]])

\* The insertion of a #ctypedef: parser.c:329-331.
CtypedefInsert(map, args) ==
    ar_hash_map_insert(map, ar_str_push_copy(args[1]), args[2])

\* case TOKEN_CTYPEDEF, parser.c:327-332.
ExpandCtypedef(mem, lx) ==
    /\ AtDirective(mem, lx, "TOKEN_CTYPEDEF")
    /\ LET g == AtToken(top, lx)
       IN  /\ stack' = SetTop(BehindToken(g))
           /\ ctype_map' = CtypedefInsert(ctype_map, lx.tok.args)
           /\ module_parts' = TrailingPart(current_module, module_parts, g)
    /\ handled' = Token(lx.tok)
    /\ UNCHANGED <<input, current_module, module_name, module_map, program,
                   errors, fs_log, pc, result>>

\* case TOKEN_ERROR, parser.c:334-336.
ExpandError(mem, lx) ==
    /\ AtDirective(mem, lx, "TOKEN_ERROR")
    /\ LET g == AtToken(top, lx)
       IN  /\ stack' = SetTop(BehindToken(g))
           /\ errors' = Append(errors, lx.tok.error)
           /\ module_parts' = TrailingPart(current_module, module_parts, g)
    /\ handled' = Token(lx.tok)
    /\ UNCHANGED <<input, current_module, module_name, module_map, ctype_map,
                   program, fs_log, pc, result>>

\* The directive line appended from behind its '#'.
GlslPart_nohash(mem, g) ==
    Bytes(mem, g.token_start + 1,
          ar_str_sub_len(Len(g.source), g.token_start + 1, g.i))

\* The directive line a GLSL token appends: parser.c:374.
GlslPart(mem, g) ==
    Bytes(mem, g.token_start,
          ar_str_sub_len(Len(g.source), g.token_start, g.i))

\* case TOKEN_GLSL, parser.c:337-338, and parser.c:372-377.
ExpandGlsl(mem, lx) ==
    /\ AtDirective(mem, lx, "TOKEN_GLSL")
    /\ LET g == AtToken(top, lx)
       IN  /\ stack' = SetTop(BehindToken(g))
           /\ module_parts' = Append(TrailingPart(current_module, module_parts, g),
                                     GlslPart(mem, g))
    /\ handled' = Token(lx.tok)
    /\ UNCHANGED <<input, current_module, module_name, module_map, ctype_map,
                   program, errors, fs_log, pc, result>>

\* The return of the root parse() and the rest of parse_shader:
\* parser.c:385 and 436-447.
ParseShaderReturn ==
    /\ pc = "parse"
    /\ Depth = 1
    /\ top.i >= Len(top.source)
    /\ stack' = <<>>
    /\ result' = [name            |-> Text(program.name),
                  vertex_source   |-> program.vert.code,
                  fragment_source |-> program.frag.code]
    /\ pc' = "done"
    /\ handled' = NoToken("done")
    /\ UNCHANGED <<input, current_module, module_name, module_parts, module_map,
                   ctype_map, program, errors, fs_log>>

(***************************************************************************)
(* The specification.                                                      *)
(***************************************************************************)
Init ==
    /\ input \in Inputs
    /\ stack = <<NewFileParser(input.source, input.paths)>>
    /\ current_module = "MODULE_NONE"
    /\ module_name = NullStr
    /\ module_parts = <<>>
    /\ module_map = <<>>
    /\ ctype_map = <<>>
    /\ program = NoProgram
    /\ errors = <<>>
    /\ fs_log = <<>>
    /\ handled = NoToken("init")
    /\ pc = "parse"
    /\ result = NoResult

Next ==
    \/ \E s \in Slacks :
          LET mem == Mem(s)
              lx  == Lex(mem, top)
          IN  \/ SkipComment(mem)
              \/ PlainChar(mem)
              \/ DirectiveCrash(mem, lx)
              \/ CommentCrash(mem)
              \/ ExpandEnd(mem, lx)
              \/ ExpandModule(mem, lx)
              \/ ExpandVert(mem, lx)
              \/ ExpandFrag(mem, lx)
              \/ ExpandProgram(mem, lx)
              \/ ExpandIncludeNoPaths(mem, lx)
              \/ ExpandIncludeFound(mem, lx)
              \/ ExpandIncludeNotFound(mem, lx)
              \/ ExpandIncludeModule(mem, lx)
              \/ ExpandCtypedef(mem, lx)
              \/ ExpandError(mem, lx)
              \/ ExpandGlsl(mem, lx)
    \/ IncludeReturn
    \/ ParseShaderReturn

Spec == Init /\ [][Next]_vars

(***************************************************************************)
(* The claims.                                                             *)
(***************************************************************************)
\* The entries of the log the step has added.
NewErrors == SubSeq(errors', Len(errors) + 1, Len(errors'))

NewFileOps == SubSeq(fs_log', Len(fs_log) + 1, Len(fs_log'))

\* The last thing reported.
LastError == errors[Len(errors)]

\* The sources of C1: a vertex block A, a fragment block B and
\* "#program P A B", each block with or without text, the file with or
\* without an empty first line.
C1_Blocks ==
    /\ input.scenario = "program"
    /\ {2, 4, 5, 7, 8} \subseteq input.kept
    /\ 9 \notin input.kept

C1_Expected ==
    [name            |-> <<"P">>,
     vertex_source   |-> IF 3 \in input.kept THEN <<"a">> ELSE <<>>,
     fragment_source |-> IF 6 \in input.kept THEN <<"b">> ELSE <<>>]

\* C1: for a source made of a "#vert A ... #end" block, a "#frag B ... #end"
\* block and "#program P A B", parse_shader returns the program named P
\* whose vertex source is the trimmed text of the vertex block and whose
\* fragment source is the trimmed text of the fragment block, also when
\* "#vert A" is the first line of the file.
C1_ProgramOfBlocks ==
    (pc = "done" /\ C1_Blocks) => result = C1_Expected

\* Whether the registry holds an entry registered under the name.
C2_Holds(map, name) == \E k \in 1..Len(map) : map[k].key.data = name

C3_ExtraneousEndChangesNothing ==
    [][(handled'.type = "TOKEN_END" /\ current_module = "MODULE_NONE") =>
          /\ NewErrors = <<Error("Extranious end statment.", <<>>)>>
          /\ UNCHANGED <<current_module, module_name, module_parts, module_map,
                         ctype_map, program>>]_vars

\* "#module A", "#end", "#end": the second #end has been handled with no
\* module open, after A has been registered.
C3_Witness ==
    /\ input.scenario = "redefine"
    /\ input.kept = {1, 2, 5}
    /\ handled.type = "TOKEN_END"
    /\ module_map # <<>>
    /\ errors = <<Error("Extranious end statment.", <<>>)>>

\* Whether the registry holds the name as a module of the kind.
C4_Registered(name, kind) ==
    \E k \in 1..Len(module_map) :
        Text(module_map[k].key) = name /\ module_map[k].value.type = kind

\* The registered module of the name.
C4_Entry(name) ==
    module_map[CHOOSE k \in 1..Len(module_map) : Text(module_map[k].key) = name].value

\* C4: a "#program P V F" handled while no program is defined reports a
\* vertex diagnostic if V is not a registered vertex module and a fragment
\* diagnostic if F is not a registered fragment module, both when both
\* fail; the program is recorded only if neither fails and stays undefined
\* otherwise.
C4_BothChecksReported ==
    [][(handled'.type = "TOKEN_PROGRAM" /\ ~ProgramDefined(program)) =>
          LET P == handled'.args[1]
              V == handled'.args[2]
              F == handled'.args[3]
              vertex_fails   == ~C4_Registered(V, "MODULE_VERT")
              fragment_fails == ~C4_Registered(F, "MODULE_FRAG")
          IN  /\ NewErrors =
                    (IF vertex_fails
                     THEN <<Error("%s: Vertex module not found.", V)>> ELSE <<>>)
                    \o (IF fragment_fails
                        THEN <<Error("%s: Fragment module not found.", F)>> ELSE <<>>)
              /\ IF vertex_fails \/ fragment_fails
                 THEN program' = program /\ ~ProgramDefined(program')
                 ELSE /\ Text(program'.name) = P
                      /\ program'.vert = C4_Entry(V)
                      /\ program'.frag = C4_Entry(F)]_vars

\* A #program has just failed both checks.
C4_Witness ==
    /\ handled.type = "TOKEN_PROGRAM"
    /\ Len(errors) >= 2
    /\ errors[Len(errors) - 1].msg = "%s: Vertex module not found."
    /\ LastError.msg = "%s: Fragment module not found."
    /\ ~ProgramDefined(program)

\* C5: an #include handled with an empty search-path list reports "Cannot
\* include files without providing search paths.", opens and reads no file,
\* enters no file, and changes neither the module registry, the alias
\* table, the program nor the files on the cursor stack.
C5_IncludeWithoutPaths ==
    [][(handled'.type = "TOKEN_INCLUDE" /\ top.paths = <<>>) =>
          /\ NewErrors =
                <<Error("Cannot include files without providing search paths.", <<>>)>>
          /\ NewFileOps = <<>>
          /\ pc' = "parse"
          /\ Len(stack') = Len(stack)
          /\ \A d \in 1..Len(stack) :
                stack'[d].source = stack[d].source /\ stack'[d].paths = stack[d].paths
          /\ UNCHANGED <<module_map, ctype_map, program>>]_vars

\* An #include has been refused for want of search paths.
C5_Witness ==
    /\ handled.type = "TOKEN_INCLUDE"
    /\ input.paths = <<>>
    /\ errors # <<>>
    /\ LastError.msg = "Cannot include files without providing search paths."
    /\ fs_log = <<>>

\* Whether the step is an #include none of whose fopen calls succeeds.
C6_NotFound ==
    /\ handled'.type = "TOKEN_INCLUDE"
    /\ top.paths # <<>>
    /\ \A k \in 1..Len(NewFileOps) : NewFileOps[k].op = "fopen" => ~NewFileOps[k].ok

\* C6: an "#include NAME" for which no directory of the search-path list
\* yields an openable file reports "Couldn't find file NAME, in the
\* provided paths." and nothing is parsed: no file is read, no file is
\* entered, and registry, alias table, program and the module in progress
\* are unchanged.
C6_NothingParsedWhenNotFound ==
    [][C6_NotFound =>
          /\ NewErrors = <<Error("Couldn't find file %s, in the provided paths.",
                                 handled'.args[1])>>
          /\ \A k \in 1..Len(NewFileOps) : NewFileOps[k].op # "read_file"
          /\ pc' = "parse"
          /\ Len(stack') = Len(stack)
          /\ UNCHANGED <<module_map, ctype_map, program, current_module,
                         module_name>>]_vars

\* Whether pat occurs in s at position p.
Occurs(pat, s, p) ==
    p + Len(pat) - 1 <= Len(s) /\ SubSeq(s, p, p + Len(pat) - 1) = pat

\* Whether module M is registered.
C7_Registered == \E k \in 1..Len(module_map) : Text(module_map[k].key) = <<"M">>

\* The body registered for module M.
C7_Body ==
    module_map[CHOOSE k \in 1..Len(module_map) : Text(module_map[k].key) = <<"M">>].value.code

\* The directive line "#version 450".
C7_Line == SubSeq(L_version, 1, Len(L_version) - 1)

\* C7: when "#version 450" appears while module M is open, the final body
\* of M contains the whole line, from its '#' on, behind the text "a" that
\* precedes the line in the module and before the text "b" that follows it
\* (M has a final body whenever the buffer ends with a newline).
C7_GlslLineKept ==
    (pc = "done" /\ input.scenario = "glsl" /\ {3, 5, 8} \subseteq input.kept) =>
        /\ input.source[Len(input.source)] = "\n" => C7_Registered
        /\ C7_Registered =>
              \E p \in 1..Len(C7_Body) :
                  /\ Occurs(C7_Line, C7_Body, p)
                  /\ 4 \in input.kept => \E q \in 1..(p - 1) : C7_Body[q] = "a"
                  /\ 7 \in input.kept =>
                        \E q \in (p + Len(C7_Line))..Len(C7_Body) : C7_Body[q] = "b"

\* The parse of "\n#module M\n a\n#version 450\nb\n#end\n" is done, and the
\* body of M is "a\n#version 450\n\nb".
C7_Witness ==
    /\ pc = "done"
    /\ input.scenario = "glsl"
    /\ input.kept = {1, 3, 4, 5, 7, 8}
    /\ C7_Body = <<"a", "\n">> \o C7_Line \o <<"\n", "\n", "b">>

\* The line of the directive whose '#' is at offset k of a buffer: the
\* bytes behind the '#' and before the next '\n'.
C8_Line(src, k) == SubSeq(src, k + 2, FindNewline(src, k))

RECURSIVE C8_Words(_, _)
\* The maximal runs of non-whitespace bytes of s, behind the run w.
C8_Words(s, w) ==
    IF s = <<>> THEN (IF w = <<>> THEN <<>> ELSE <<w>>)
    ELSE IF ar_char_is_whitespace(Head(s))
         THEN (IF w = <<>> THEN <<>> ELSE <<w>>) \o C8_Words(Tail(s), <<>>)
         ELSE C8_Words(Tail(s), Append(w, Head(s)))

\* Whether the words of a line are no valid directive: no word, a leading
\* word of neither keyword set, or a structural keyword with another number
\* of arguments than it requires.
C8_Invalid(words) ==
    \/ words = <<>>
    \/ match_token_type(words[1]) = "TOKEN_ERROR"
    \/ /\ match_token_type(words[1]) # "TOKEN_GLSL"
       /\ Len(words) - 1 # ArgCount(match_token_type(words[1]))

\* The scan is at the '#' of a line that ends inside the buffer and is no
\* valid directive.
C8_AtInvalidLine ==
    /\ pc = "parse"
    /\ stack # <<>>
    /\ top.i < Len(top.source)
    /\ top.source[top.i + 1] = "#"
    /\ FindNewline(top.source, top.i) < Len(top.source)
    /\ C8_Invalid(C8_Words(C8_Line(top.source, top.i), <<>>))

\* C8: a '#' line that is no valid directive produces exactly one
\* diagnostic and has no other effect: module kind, module name, registry,
\* alias table and program are unchanged, no fragment holding a '#' is
\* added, and the scan goes on behind the line's '\n'.
C8_InvalidLineOnlyReported ==
    [][C8_AtInvalidLine =>
          /\ Len(NewErrors) = 1
          /\ pc' = "parse"
          /\ UNCHANGED <<current_module, module_name, module_map, ctype_map,
                         program>>
          /\ \A k \in (Len(module_parts) + 1)..Len(module_parts') :
                \A p \in 1..Len(module_parts'[k]) : module_parts'[k][p] # "#"
          /\ Len(stack') = Len(stack)
          /\ stack'[Len(stack')].i = FindNewline(top.source, top.i) + 1]_vars

\* The targets the alias table holds for a key.
C9_Targets(K) ==
    {ctype_map[k].value : k \in {j \in 1..Len(ctype_map) : ctype_map[j].key.data = K}}

\* The table at the end of "#ctypedef K V", "#ctypedef K W", "#ctypedef A B"
\* (whichever of them the source keeps, in this order).
C9_Final ==
    (pc = "done" /\ input.scenario = "alias") =>
        /\ C9_Targets(<<"K">>) = IF 1 \in input.kept THEN {<<"V">>}
                                 ELSE IF 3 \in input.kept THEN {<<"W">>} ELSE {}
        /\ C9_Targets(<<"A">>) = IF 5 \in input.kept THEN {<<"B">>} ELSE {}

\* C9: the alias table maps each key to the target of the first #ctypedef
\* for the key in scan order; a #ctypedef for a key the table holds changes
\* no entry, a #ctypedef reports nothing, and no other step changes the
\* table.
C9_FirstAliasWins ==
    /\ []C9_Final
    /\ [][IF handled'.type = "TOKEN_CTYPEDEF"
          THEN /\ NewErrors = <<>>
               /\ IF C9_Targets(handled'.args[1]) # {}
                  THEN ctype_map' = ctype_map
                  ELSE ctype_map' = Append(ctype_map,
                           [key   |-> ar_str_push_copy(handled'.args[1]),
                            value |-> handled'.args[2]])
          ELSE ctype_map' = ctype_map]_vars

\* "#ctypedef K W" has been handled and K still maps to V.
C9_Witness ==
    /\ handled = [type |-> "TOKEN_CTYPEDEF", args |-> <<<<"K">>, <<"W">>>>]
    /\ C9_Targets(<<"K">>) = {<<"V">>}
    /\ errors = <<>>

C11_ConsumesInput ==
    input.scenario = "glsl" =>
        /\ pc # "crash"
        /\ \A d \in 1..Len(stack) : stack[d].i <= Len(stack[d].source)

\* Whether the registry holds a module that reads as the name.
Registered(name) ==
    \E k \in 1..Len(module_map) : Text(module_map[k].key) = name

\* The body registered for the name.
BodyOf(name) ==
    module_map[CHOOSE k \in 1..Len(module_map) : Text(module_map[k].key) = name].value.code

\* C12: for module M with body "a" and then, inside module A, the text "b",
\* "#include_module M" and (where the source keeps it) the text "c", the
\* body of A holds "b" before the body of M, and the body of M before "c".
C12_FragmentsInSourceOrder ==
    (pc = "done" /\ input.scenario = "inline"
     /\ {1, 2, 3, 4, 6, 7, 8, 10} \subseteq input.kept) =>
        /\ Registered(<<"A">>)
        /\ \E p, q \in 1..Len(BodyOf(<<"A">>)) :
              /\ p < q
              /\ BodyOf(<<"A">>)[p] = "b"
              /\ BodyOf(<<"A">>)[q] = "a"
              /\ 9 \in input.kept =>
                    \E r \in (q + 1)..Len(BodyOf(<<"A">>)) : BodyOf(<<"A">>)[r] = "c"

\* C13: an "#include_module M" handled while no module is open, M being
\* registered, changes nothing: neither the module kind, the module name,
\* the pending fragments, the registry, the alias table, the program nor
\* what has been reported.
C13_InlineOutsideModuleIgnored ==
    [][(handled'.type = "TOKEN_INCLUDE_MODULE" /\ current_module = "MODULE_NONE"
        /\ Registered(handled'.args[1])) =>
          UNCHANGED <<current_module, module_name, module_parts, module_map,
                      ctype_map, program, errors>>]_vars

\* Whether the root buffer ends with a newline.
Terminated == input.source # <<>> /\ input.source[Len(input.source)] = "\n"

\* C14: whenever no module is open, the list of pending fragments is empty
\* (stated for root buffers that end with a newline).
C14_NoFragmentsOutsideModule ==
    (Terminated /\ current_module = "MODULE_NONE") => module_parts = <<>>

\* C15: for a "// #end" comment inside module M, no character of the
\* comment appears in the body of M (stated for sources that begin with an
\* empty line and end with a newline).
C15_CommentsDiscarded ==
    (pc = "done" /\ input.scenario = "glsl" /\ {1, 3, 6, 8} \subseteq input.kept
     /\ Terminated /\ Registered(<<"M">>)) =>
        \A p \in 1..Len(BodyOf(<<"M">>)) : BodyOf(<<"M">>)[p] # "/"

\* C16: a defined program has a vertex module that is a registry entry of
\* kind vertex and a fragment module that is a registry entry of kind
\* fragment; the program becomes defined only by a #program whose vertex
\* and fragment names the registry already holds with these kinds and
\* values, and the registry grows only by an #end.
C16_ProgramModulesRegistered ==
    /\ [](ProgramDefined(program) =>
            /\ program.vert.type = "MODULE_VERT"
            /\ program.frag.type = "MODULE_FRAG"
            /\ \E k \in 1..Len(module_map) : module_map[k].value = program.vert
            /\ \E k \in 1..Len(module_map) : module_map[k].value = program.frag)
    /\ [][(~ProgramDefined(program) /\ ProgramDefined(program')) =>
            /\ handled'.type = "TOKEN_PROGRAM"
            /\ \E k \in 1..Len(module_map) :
                  /\ Text(module_map[k].key) = handled'.args[2]
                  /\ module_map[k].value = program'.vert
                  /\ module_map[k].value.type = "MODULE_VERT"
            /\ \E k \in 1..Len(module_map) :
                  /\ Text(module_map[k].key) = handled'.args[3]
                  /\ module_map[k].value = program'.frag
                  /\ module_map[k].value.type = "MODULE_FRAG"]_vars
    /\ [][Len(module_map') # Len(module_map) => handled'.type = "TOKEN_END"]_vars

\* "#program P A B" has failed on the modules it names ahead of their
\* definition, and has defined the program once they are registered.
C16_Witness ==
    /\ input.scenario = "forward"
    /\ input.kept = 1..6
    /\ handled.type = "TOKEN_PROGRAM"
    /\ ProgramDefined(program)
    /\ Len(errors) = 2

\* The module kind a module start sets.
C17_Kind(type) ==
    CASE type = "TOKEN_MODULE" -> "MODULE_MODULE"
      [] type = "TOKEN_VERT" -> "MODULE_VERT"
      [] type = "TOKEN_FRAG" -> "MODULE_FRAG"

\* C17: a "#module N", "#vert N" or "#frag N" handled while a module is open
\* reports one diagnostic naming N and changes neither the module kind, the
\* module name nor the registry; handled while no module is open it sets
\* the module kind and the name N, reports nothing, and changes neither the
\* registry, the alias table nor the program.
C17_ModuleStart ==
    [][handled'.type \in {"TOKEN_MODULE", "TOKEN_VERT", "TOKEN_FRAG"} =>
          IF current_module # "MODULE_NONE"
          THEN /\ Len(NewErrors) = 1
               /\ NewErrors[1].arg = handled'.args[1]
               /\ UNCHANGED <<current_module, module_name, module_map>>
          ELSE /\ current_module' = C17_Kind(handled'.type)
               /\ Text(module_name') = handled'.args[1]
               /\ NewErrors = <<>>
               /\ UNCHANGED <<module_map, ctype_map, program>>]_vars

\* "#frag B" has been handled while vertex module A was open.
C17_Witness ==
    /\ handled = [type |-> "TOKEN_FRAG", args |-> <<<<"B">>>>]
    /\ current_module = "MODULE_VERT"
    /\ Text(module_name) = <<"A">>
    /\ errors # <<>>
    /\ LastError =
          Error("%s: New fragment module started before ending the last module.", <<"B">>)

\* The scan is at the '#' of a line that ends inside the buffer.
C18_AtLine ==
    /\ Scanning
    /\ top.source[top.i + 1] = "#"
    /\ FindNewline(top.source, top.i) < Len(top.source)

\* C18: the words split_statement returns for a statement are exactly the
\* maximal runs of non-whitespace bytes of the statement, in order,
\* whatever lies behind the statement.
C18_SplitsIntoWords ==
    C18_AtLine =>
        \A s \in Slacks :
            LET st == extract_statement(Mem(s), Len(top.source), top.i + 1)
                sp == split_statement(Mem(s), st.base, st.len)
            IN  /\ ~sp.crash
                /\ sp.list = C8_Words(C8_Line(top.source, top.i), <<>>)

\* C19: a module start considers the span of the source from the end of the
\* last directive up to its own '#': the end of the last directive is not
\* behind the '#', and the pending fragments are left alone or gain exactly
\* that span.
C19_SpanBeforeModuleStart ==
    [][handled'.type \in {"TOKEN_MODULE", "TOKEN_VERT", "TOKEN_FRAG"} =>
          /\ top.token_end <= top.i
          /\ module_parts' \in
                {module_parts,
                 Append(module_parts, SubSeq(top.source, top.token_end + 1, top.i))}]_vars

\* C20: the scan of a file reads no byte behind the file's buffer.
C20_ReadsInBounds ==
    \A d \in 1..Len(stack) : ~stack[d].oob

====
